---- MODULE Spec2Model ----
(***************************************************************************)
(* A model of the kurobako protocol bridge:                                *)
(*   - the optuna ASK/TELL adapter  (kurobako_solvers/contrib/             *)
(*     optuna_solver.py: Objective.__init__, _suggest, __call__),          *)
(*   - the LightGBM evaluator session table (kurobako_problems/contrib/    *)
(*     lightgbm_problem.py: Evaluator.handle_eval and the main loop).      *)
(* Each action is one blocking input() of a process together with all the  *)
(* statements executed up to the next input() (or to process exit).        *)
(* Continuous values are modelled as integers (a fixed-point scale).       *)
(***************************************************************************)
EXTENDS Integers, Sequences, FiniteSets, TLC

\* ------------------------------------------------------------------ bounds
\* Largest evaluation-expense announced by a problem.
MaxExpense == 2
\* Number of id hints the harness hands out in one run.
MaxId == 3
\* Number of trial ids the harness uses against the session table.
MaxSession == 2
\* A session is sent no EVALUATE_CALL once its model has MaxIter rounds.
MaxIter == 2

\* A sampler draw is an offset in 0..MaxPick into the range or choice list.
MaxPick == 2

Picks == 0 .. MaxPick
\* The draws of the sampler in the runs of the whole adapter.
AdapterPicks == {0, 1}
Values == {0, 1}
PrunerArgs == {"none", "median"}
\* The values of --min-iterations.
MinIterationsArgs == {1, 2}

\* Python's None on the wire (JSON null).
None == [none |-> TRUE]

\* ------------------------------------------------------- parameter domains
Uniform(n, lo, hi) ==
    [kind |-> "continuous", name |-> n, distribution |-> "uniform",
     range |-> [low |-> lo, high |-> hi]]
LogUniform(n, lo, hi) ==
    [kind |-> "continuous", name |-> n, distribution |-> "log-uniform",
     range |-> [low |-> lo, high |-> hi]]
Discrete(n, lo, hi) ==
    [kind |-> "discrete", name |-> n, range |-> [low |-> lo, high |-> hi]]
Categorical(n, cs) ==
    [kind |-> "categorical", name |-> n, choices |-> cs]
Conditional(n, dep, cs, p) ==
    [kind |-> "conditional", name |-> n,
     condition |-> [member |-> [name |-> dep, choices |-> cs]], param |-> p]

\* ------------------------------------------------- the optuna trial object
\* trial.params (name -> value in external representation) and, as a record
\* of the sampler's use, the sequence of suggest_* calls made on the trial;
NewTrial(n) == [number |-> n, params |-> << >>, calls |-> << >>]

SetParam(tp, n, v) == [x \in (DOMAIN tp) \cup {n} |-> IF x = n THEN v ELSE tp[x]]

\* What the sampler returns for draw k: a value of the range, a choice.
SampleRange(r, k) == IF r.low + k <= r.high THEN r.low + k ELSE r.high
SampleChoice(cs, k) == cs[(k % Len(cs)) + 1]

\* list.index(x): the zero-based position of the first occurrence.
IndexOfOneBased(cs, c) == CHOOSE i \in 1 .. Len(cs) : cs[i] = c /\ \A j \in 1 .. (i - 1) : cs[j] # c
IndexOf(cs, c) == (CHOOSE i \in 1 .. Len(cs) : cs[i] = c /\ \A j \in 1 .. (i - 1) : cs[j] # c) - 1

\* A suggest_* call on the trial: the value is stored in trial.params.
Call(tr, fn, p, v) ==
    [tr EXCEPT !.params = SetParam(tr.params, p.name, v),
               !.calls = Append(tr.calls, [fn |-> fn, name |-> p.name])]

\* The sampling capability _suggest uses for a continuous domain.
ContinuousFn(distribution) == "suggest_uniform"

\* x in cs, for a Python list cs.
InList(x, cs) == \E i \in 1 .. Len(cs) : cs[i] = x

\* Lines 78-79: the dependent parameter has been sampled in this trial and
\* its value is among the condition's choices.
ConditionMetNoCheck(data, tr) == TRUE
ConditionMet(data, tr) ==
    /\ data.condition.member.name \in DOMAIN tr.params
    /\ InList(tr.params[data.condition.member.name], data.condition.member.choices)

\* Objective._suggest(p, trial) with the sampler's draw k.
\* Result: the wire value, the trial afterwards, and the exception if any.
RECURSIVE Suggest(_, _, _)
Suggest(p, tr, k) ==
    IF p.kind = "continuous" THEN
        IF p.distribution \in {"uniform", "log-uniform"} THEN
            LET v == SampleRange(p.range, k) IN
            [wire |-> [continuous |-> v],
             trial |-> Call(tr, ContinuousFn(p.distribution), p, v),
             exc |-> "none"]
        ELSE [wire |-> None, trial |-> tr, exc |-> "ValueError"]
    ELSE IF p.kind = "discrete" THEN
        LET v == SampleRange(p.range, k) IN
        [wire |-> [discrete |-> v],
         trial |-> Call(tr, "suggest_int", p, v),
         exc |-> "none"]
    ELSE IF p.kind = "categorical" THEN
        LET category == SampleChoice(p.choices, k) IN
        [wire |-> [categorical |-> IndexOf(p.choices, category)],
         trial |-> Call(tr, "suggest_categorical", p, category),
         exc |-> "none"]
    ELSE IF p.kind = "conditional" THEN
        IF "member" \notin DOMAIN p.condition THEN
            [wire |-> None, trial |-> tr, exc |-> "AssertionError"]
        ELSE IF ConditionMet(p, tr) THEN
            LET r == Suggest(p.param, tr, k) IN
            [wire |-> [conditional |-> r.wire], trial |-> r.trial, exc |-> r.exc]
        ELSE [wire |-> [conditional |-> None], trial |-> tr, exc |-> "none"]
    ELSE [wire |-> None, trial |-> tr, exc |-> "ValueError"]


\* ------------------------------------------------------------ the adapter
VARIABLES
    pruner,     \* args.pruner
    a_pc,       \* where the solver process stands (the input() it blocks on)
    problem,    \* Objective.problem
    next_id,    \* Objective.next_id
    params,     \* __call__: params sampled so far in this trial
    trial,      \* the optuna trial object handed to __call__
    message,    \* __call__: the message last read
    budget,     \* __call__: budget (the TELL_CALL's budget dict)
    value,      \* __call__: value
    ask_res,    \* __call__: the ASK_REPLY last printed
    ev,         \* what the process did since its last input(), in order
    finished,   \* the study's record of the trial that ended last
    pruned      \* the ids of the trials the study holds as PRUNED

avars == <<pruner, a_pc, problem, next_id, params, trial, message, budget,
           value, ask_res, ev, finished, pruned>>

CAPABILITIES == <<"CATEGORICAL", "CONDITIONAL", "DISCRETE", "LOG_UNIFORM">>
SPEC == [type |-> "SOLVER_SPEC_CAST", name |-> "optuna", capabilities |-> CAPABILITIES]
TELL_REPLY == [type |-> "TELL_REPLY"]

Printed(m) == [e |-> "print", m |-> m]
Raised(x) == [e |-> "raise", exc |-> x]
Returned(v) == [e |-> "return", value |-> v]
Reported(v, s) == [e |-> "report", value |-> v, step |-> s]
Stored(i) == [e |-> "next_id", id |-> i]
Asked(s, a) == [e |-> "should_prune", step |-> s, answer |-> a]

NoMessage == [type |-> "none"]
NoTrial == [number |-> 0, id |-> 0, state |-> "NONE", values |-> << >>]

\* An exception nobody catches: the process exits.
Die(exc) ==
    /\ a_pc' = "dead"
    /\ ev' = Append(ev, Raised(exc))

\* study.optimize records the end of the trial and calls the objective again.
EndTrial(state, vals) ==
    /\ finished' = [number |-> trial.number, id |-> ask_res.id, state |-> state,
                    values |-> vals]
    /\ pruned' = IF state = "PRUNED" THEN pruned \cup {ask_res.id} ELSE pruned
    /\ trial' = NewTrial(trial.number + 1)
    /\ params' = << >>
    /\ a_pc' = "call"

\* Lines 38-45 and 149-177 up to the first input() in Objective.__init__.
SolverStartSilent ==
    /\ a_pc = "boot"
    /\ ev' = << >>
    /\ a_pc' = "init_problem"
    /\ UNCHANGED <<pruner, problem, next_id, params, trial, message, budget, value,
                   ask_res, finished, pruned>>
SolverStart ==
    /\ a_pc = "boot"
    /\ ev' = <<Printed(SPEC)>>
    /\ a_pc' = "init_problem"
    /\ UNCHANGED <<pruner, problem, next_id, params, trial, message, budget, value,
                   ask_res, finished, pruned>>

\* Line 50.
InitProblem(m) ==
    /\ a_pc = "init_problem"
    /\ problem' = m
    /\ ev' = << >>
    /\ a_pc' = "init_id"
    /\ UNCHANGED <<pruner, next_id, params, trial, message, budget, value, ask_res,
                   finished, pruned>>

\* Line 51, then study.optimize calls the objective for the first trial.
InitId(m) ==
    /\ a_pc = "init_id"
    /\ IF "id_hint" \in DOMAIN m
       THEN /\ next_id' = m.id_hint
            /\ ev' = <<Stored(m.id_hint)>>
            /\ a_pc' = "call"
            /\ trial' = NewTrial(1)
            /\ params' = << >>
       ELSE /\ a_pc' = "dead"
            /\ ev' = <<Raised("KeyError")>>
            /\ UNCHANGED <<next_id, trial, params>>
    /\ UNCHANGED <<pruner, problem, message, budget, value, ask_res, finished, pruned>>

\* Lines 87-88: one iteration of the loop over problem['params-domain'].
SuggestParam(k) ==
    /\ a_pc = "call"
    /\ Len(params) < Len(problem.params_domain)
    /\ LET r == Suggest(problem.params_domain[Len(params) + 1], trial, k) IN
       IF r.exc = "none"
       THEN /\ params' = Append(params, r.wire)
            /\ trial' = r.trial
            /\ UNCHANGED <<a_pc, ev>>
       ELSE /\ Die(r.exc)
            /\ UNCHANGED <<params, trial>>
    /\ UNCHANGED <<pruner, problem, next_id, message, budget, value, ask_res, finished,
                   pruned>>

\* Lines 90-93.
InitialAmountWhole(pr, prob) == prob.evaluation_expense
InitialAmount(pr, prob) == IF pr = "none" THEN prob.evaluation_expense ELSE 1

\* Lines 94-103.
SendAsk ==
    /\ a_pc = "call"
    /\ Len(params) = Len(problem.params_domain)
    /\ ask_res' = [type |-> "ASK_REPLY", id |-> next_id, params |-> params,
                   budget |-> [amount |-> InitialAmount(pruner, problem),
                               consumption |-> 0]]
    /\ ev' = Append(ev, Printed(ask_res'))
    /\ a_pc' = "await_tell"
    /\ UNCHANGED <<pruner, problem, next_id, params, trial, message, budget, value,
                   finished, pruned>>

\* Line 114.
IsTerminalAlways(step, prob) == TRUE
IsTerminal(step, prob) == step = prob.evaluation_expense

\* Lines 125-135: what the adapter does with a non-terminal step result.
StepEventsReplyFirst(v, step, sp) ==
    <<Printed(TELL_REPLY), Reported(v, step), Asked(step, sp)>>
StepEventsTwoReplies(v, step, sp) ==
    <<Reported(v, step), Asked(step, sp), Printed(TELL_REPLY), Printed(TELL_REPLY)>>
StepEvents(v, step, sp) ==
    <<Reported(v, step), Asked(step, sp), Printed(TELL_REPLY)>>

\* Lines 122-123: the two assertions on a step result that is not terminal.
StepAllowedAlways(step, prob, pr) == TRUE
StepAllowed(step, prob, pr) == step < prob.evaluation_expense /\ pr # "none"

\* Lines 106-146: the input() at the head of the loop and what follows it up
\* to the next input().  sp is the answer of trial.should_prune(step).
AwaitTell(m, sp) ==
    /\ a_pc = "await_tell"
    /\ message' = m
    /\ IF m.type = "ASK_CALL" THEN
            /\ next_id' = m.id_hint
            /\ ev' = <<Stored(m.id_hint), Raised("KurobakoError")>>
            /\ EndTrial("FAIL", << >>)
            /\ UNCHANGED <<budget, value>>
       ELSE IF m.type = "TELL_CALL" THEN
            /\ budget' = m.budget
            /\ value' = m.values[1]
            /\ IF IsTerminal(m.budget.consumption, problem) THEN
                    /\ ev' = <<Printed(TELL_REPLY)>>
                    /\ a_pc' = "await_ask_done"
                    /\ UNCHANGED trial
               ELSE IF ~StepAllowed(m.budget.consumption, problem, pruner) THEN
                    /\ ev' = <<Raised("AssertionError")>>
                    /\ a_pc' = "dead"
                    /\ UNCHANGED trial
               ELSE
                    /\ UNCHANGED trial
                    /\ ev' = StepEvents(m.values[1], m.budget.consumption, sp)
                    /\ a_pc' = IF sp THEN "await_ask_prune" ELSE "await_ask_cont"
            /\ UNCHANGED <<next_id, params, finished, pruned>>
       ELSE
            /\ ev' = <<Raised("ValueError")>>
            /\ a_pc' = "dead"
            /\ UNCHANGED <<next_id, params, trial, finished, pruned, budget, value>>
    /\ UNCHANGED <<pruner, problem, ask_res>>

\* Lines 117-118 and 129-130: the id hint of the message read after TELL_REPLY.
HintKept(m, cur) == cur
Hint(m, cur) == m.id_hint

\* Lines 117-120.
AwaitAskDone(m) ==
    /\ a_pc = "await_ask_done"
    /\ message' = m
    /\ IF "id_hint" \in DOMAIN m
       THEN /\ next_id' = Hint(m, next_id)
            /\ ev' = <<Stored(next_id'), Returned(value)>>
            /\ EndTrial("COMPLETE", <<value>>)
       ELSE /\ a_pc' = "dead"
            /\ ev' = <<Raised("KeyError")>>
            /\ UNCHANGED <<next_id, trial, params, finished, pruned>>
    /\ UNCHANGED <<pruner, problem, budget, value, ask_res>>

\* Lines 129-133.
AwaitAskPrune(m) ==
    /\ a_pc = "await_ask_prune"
    /\ message' = m
    /\ IF "id_hint" \in DOMAIN m
       THEN /\ next_id' = Hint(m, next_id)
            /\ ev' = <<Stored(next_id'), Raised("TrialPruned")>>
            /\ EndTrial("PRUNED", << >>)
       ELSE /\ a_pc' = "dead"
            /\ ev' = <<Raised("KeyError")>>
            /\ UNCHANGED <<next_id, trial, params, finished, pruned>>
    /\ UNCHANGED <<pruner, problem, budget, value, ask_res>>

\* Line 137.
StepQuantumTwo(b) == [b EXCEPT !.amount = @ + 2]
StepQuantum(b) == [b EXCEPT !.amount = @ + 1]

\* Lines 136-140: the id of the re-issued ASK_REPLY; the message read at
\* line 136 is not looked at.
ReAskIdHinted(m, cur) == IF "id_hint" \in DOMAIN m THEN m.id_hint ELSE cur
ReAskId(m, cur) == cur

\* Lines 136-144.
AwaitAskCont(m) ==
    /\ a_pc = "await_ask_cont"
    /\ message' = m
    /\ budget' = StepQuantum(budget)
    /\ ask_res' = [type |-> "ASK_REPLY", id |-> ReAskId(m, next_id), params |-> params,
                   budget |-> budget']
    /\ ev' = <<Printed(ask_res')>>
    /\ a_pc' = "await_tell"
    /\ UNCHANGED <<pruner, problem, next_id, params, trial, value, finished, pruned>>


\* ------------------------------------------- the LightGBM session table
VARIABLES
    min_iterations,   \* args.min_iterations
    num_boost_round,  \* args.num_boost_round
    t_pc,             \* where the problem process stands
    req,              \* the request last read by the main loop
    evaluators,       \* the dict evaluators: id -> None or an Evaluator
    t_ev              \* what the process did since its last input(), in order

tvars == <<min_iterations, num_boost_round, t_pc, req, evaluators, t_ev>>

\* Lines 22-26: the helpers that build a domain (no 'distribution' key).
uniform(n, lo, hi) ==
    [kind |-> "continuous", name |-> n, range |-> [low |-> lo, high |-> hi]]
discrete(n, lo, hi) ==
    [kind |-> "discrete", name |-> n, range |-> [low |-> lo, high |-> hi]]

\* Lines 28-44.  Continuous bounds are in units of 0.0001.
params_domain ==
    << discrete("max_bin", 4, 512),
       discrete("num_leaves", 4, 512),
       uniform("learning_rate", 1, 10000),
       discrete("min_data_in_leaf", 0, 100),
       uniform("min_sum_hessian_in_leaf", 0, 1000000),
       Categorical("boosting", <<"gbdt", "dart">>),
       uniform("bagging_fraction", 0, 10000),
       discrete("bagging_freq", 0, 20),
       uniform("feature_fraction", 0, 10000),
       discrete("max_depth", 1, 1000),
       uniform("lambda_l1", 0, 100000),
       uniform("lambda_l2", 0, 100000),
       uniform("min_gain_to_split", 0, 10000) >>

\* Lines 46-53.
PROBLEM_SPEC ==
    [type |-> "PROBLEM_SPEC_CAST", params_domain |-> params_domain,
     evaluation_expense |-> num_boost_round]

Min(a, b) == IF a <= b THEN a ELSE b
Max(a, b) == IF a >= b THEN a ELSE b

\* Lines 62-75: the LightGBM parameters read from the wire values, by position
\* (zip stops at the shorter list).
DecodeOne(k, v) ==
    IF k.kind = "continuous" THEN v.continuous
    ELSE IF k.kind = "discrete" THEN v.discrete
    ELSE k.choices[v.categorical + 1]

DecodeExc(k, v) ==
    IF k.kind \notin {"continuous", "discrete", "categorical"} THEN "ValueError"
    ELSE IF k.kind \notin DOMAIN v THEN "KeyError"
    ELSE IF k.kind = "categorical" /\ v.categorical + 1 \notin 1 .. Len(k.choices)
    THEN "IndexError"
    ELSE "none"

\* Lines 60-77: Evaluator(raw_params); gbm is None.
NewEvaluator(raw_params) ==
    LET n == Min(Len(params_domain), Len(raw_params)) IN
    [params |-> [i \in 1 .. n |-> DecodeOne(params_domain[i], raw_params[i])],
     gbm |-> None]

\* The exception Evaluator(raw_params) raises, "none" if it does not.
NewEvaluatorExc(raw_params) ==
    LET bad == {i \in 1 .. Min(Len(params_domain), Len(raw_params)) :
                    DecodeExc(params_domain[i], raw_params[i]) # "none"}
    IN IF bad = {} THEN "none"
       ELSE LET i == CHOOSE x \in bad : \A y \in bad : x <= y
            IN DecodeExc(params_domain[i], raw_params[i])

\* gbm.current_iteration(), 0 for a model not trained yet.
current_iteration(gbm) == IF gbm = None THEN 0 ELSE gbm.iteration

\* Line 82.
NumBoostRound(b) == Max(min_iterations, b.amount - b.consumption)

\* Lines 85-92: lgb.train continues from init_model for num_boost_round rounds.
TrainFromScratch(e, n) == [e EXCEPT !.gbm = [iteration |-> n]]
Train(e, n) == [e EXCEPT !.gbm = [iteration |-> current_iteration(e.gbm) + n]]

\* Line 112.
CreateAllowedAlways(id, evs) == TRUE
CreateAllowed(id, evs) == id \notin DOMAIN evs

\* Line 100: the assertion on the model's iteration count after training.
ProgressConsistentAlways(e, n, b) == TRUE
ProgressConsistent(e, n, b) == current_iteration(e.gbm) = n + b.consumption

\* Lines 101-103: the reply; consumption is overwritten in the request's budget.
EvaluateOkReplySpent(v, b, it) ==
    [type |-> "EVALUATE_OK_REPLY", values |-> <<v>>,
     budget |-> [amount |-> it, consumption |-> it]]
EvaluateOkReply(v, b, it) ==
    [type |-> "EVALUATE_OK_REPLY", values |-> <<v>>,
     budget |-> [b EXCEPT !.consumption = it]]

\* Lines 119-120: the evaluator of the session, constructed from the params of
\* the request when the session still holds the placeholder.
SessionRebuilt(evs, id, ps) ==
    IF NewEvaluatorExc(ps) = "none" THEN NewEvaluator(ps) ELSE evs[id]
Session(evs, id, ps) == IF evs[id] = None THEN NewEvaluator(ps) ELSE evs[id]

\* Lines 113 and 120: evaluators[id] = x.
PutShared(evs, id, x) == [i \in (DOMAIN evs) \cup {id} |-> x]
Put(evs, id, x) == [i \in (DOMAIN evs) \cup {id} |-> IF i = id THEN x ELSE evs[i]]
Del(evs, id) == [i \in (DOMAIN evs) \ {id} |-> evs[i]]

TableDies(exc) ==
    /\ t_pc' = "dead"
    /\ t_ev' = <<Raised(exc)>>

\* Lines 16-54: start-up, up to the first input() of the main loop.
TableStartSilent ==
    /\ t_pc = "boot"
    /\ t_ev' = << >>
    /\ t_pc' = "loop"
    /\ UNCHANGED <<min_iterations, num_boost_round, req, evaluators>>
TableStart ==
    /\ t_pc = "boot"
    /\ t_ev' = <<Printed(PROBLEM_SPEC)>>
    /\ t_pc' = "loop"
    /\ UNCHANGED <<min_iterations, num_boost_round, req, evaluators>>

\* Lines 109-123 with Evaluator.__init__ and handle_eval (lines 79-103):
\* one request.  v is the validation metric after training.
TableRecv(r, v) ==
    /\ t_pc = "loop"
    /\ req' = r
    /\ IF r.type = "CREATE_EVALUATOR_CAST" THEN
            IF CreateAllowed(r.id, evaluators)
            THEN /\ evaluators' = Put(evaluators, r.id, None)
                 /\ t_ev' = << >>
                 /\ UNCHANGED t_pc
            ELSE /\ TableDies("AssertionError")
                 /\ UNCHANGED evaluators
       ELSE IF r.type = "DROP_EVALUATOR_CAST" THEN
            IF r.id \in DOMAIN evaluators
            THEN /\ evaluators' = Del(evaluators, r.id)
                 /\ t_ev' = << >>
                 /\ UNCHANGED t_pc
            ELSE /\ TableDies("KeyError")
                 /\ UNCHANGED evaluators
       ELSE IF r.type = "EVALUATE_CALL" THEN
            IF r.id \notin DOMAIN evaluators
            THEN /\ TableDies("KeyError")
                 /\ UNCHANGED evaluators
            ELSE IF evaluators[r.id] = None /\ NewEvaluatorExc(r.params) # "none"
            THEN /\ TableDies(NewEvaluatorExc(r.params))
                 /\ UNCHANGED evaluators
            ELSE LET e0 == Session(evaluators, r.id, r.params)
                     n == NumBoostRound(r.budget)
                     e1 == Train(e0, n)
                 IN /\ evaluators' = Put(evaluators, r.id, e1)
                    /\ IF ProgressConsistent(e1, n, r.budget)
                       THEN /\ t_ev' = <<Printed(EvaluateOkReply(
                                               v, r.budget, current_iteration(e1.gbm)))>>
                            /\ UNCHANGED t_pc
                       ELSE TableDies("AssertionError")
       ELSE /\ TableDies("ValueError")
            /\ UNCHANGED evaluators
    /\ UNCHANGED <<min_iterations, num_boost_round>>

\* ------------------------------------------ the evalset (sigopt) session table
\* kurobako_problems/contrib/sigopt_problem.py
VARIABLES
    s_pc,           \* where the process stands
    s_req,          \* the request last read by the main loop
    id_to_params,   \* Evaluator.id_to_params
    id_to_value,    \* Evaluator.id_to_value
    s_ev            \* what the process did since its last input(), in order

svars == <<s_pc, s_req, id_to_params, id_to_value, s_ev>>

\* Lines 25-29; the bounds of the test function are not modelled.
SigoptInfo == [cost |-> 1]

\* Lines 50 and 56: the cost replied, by whether the value is already held.
EvalCostOne(known) == 1
EvalCost(known) == IF known THEN 0 ELSE 1

\* Lines 17-30: start-up, up to the first input() of the main loop.
SigoptStart ==
    /\ s_pc = "boot"
    /\ s_ev' = <<Printed(SigoptInfo)>>
    /\ s_pc' = "loop"
    /\ UNCHANGED <<s_req, id_to_params, id_to_value>>

SigoptDies(exc) ==
    /\ s_pc' = "dead"
    /\ s_ev' = <<Raised(exc)>>

\* Lines 60-68 with the three handlers (lines 37-56): one request.  y is the
\* value test_function.do_evaluate returns for the params of the id.
SigoptRecv(r, y) ==
    /\ s_pc = "loop"
    /\ s_req' = r
    /\ IF r.kind = "start_eval" THEN
            IF r.eval_id \in DOMAIN id_to_params
            THEN /\ SigoptDies("AssertionError")
                 /\ UNCHANGED <<id_to_params, id_to_value>>
            ELSE /\ id_to_params' = Put(id_to_params, r.eval_id, r.params)
                 /\ s_ev' = <<Printed([ok |-> TRUE])>>
                 /\ UNCHANGED <<s_pc, id_to_value>>
       ELSE IF r.kind = "finish_eval" THEN
            IF r.eval_id \notin DOMAIN id_to_params
            THEN /\ SigoptDies("KeyError")
                 /\ UNCHANGED <<id_to_params, id_to_value>>
            ELSE /\ id_to_params' = Del(id_to_params, r.eval_id)
                 /\ IF r.eval_id \notin DOMAIN id_to_value
                    THEN /\ SigoptDies("KeyError")
                         /\ UNCHANGED id_to_value
                    ELSE /\ id_to_value' = Del(id_to_value, r.eval_id)
                         /\ s_ev' = << >>
                         /\ UNCHANGED s_pc
       ELSE IF r.kind = "eval" THEN
            IF r.eval_id \in DOMAIN id_to_value
            THEN /\ s_ev' = <<Printed([value |-> id_to_value[r.eval_id],
                                       cost |-> EvalCost(TRUE)])>>
                 /\ UNCHANGED <<s_pc, id_to_params, id_to_value>>
            ELSE IF r.eval_id \notin DOMAIN id_to_params
            THEN /\ SigoptDies("KeyError")
                 /\ UNCHANGED <<id_to_params, id_to_value>>
            ELSE /\ id_to_value' = Put(id_to_value, r.eval_id, y)
                 /\ s_ev' = <<Printed([value |-> y, cost |-> EvalCost(FALSE)])>>
                 /\ UNCHANGED <<s_pc, id_to_params>>
       ELSE /\ SigoptDies("ValueError")
            /\ UNCHANGED <<id_to_params, id_to_value>>

SigoptBoot ==
    /\ s_pc = "boot"
    /\ s_req = NoMessage
    /\ id_to_params = << >>
    /\ id_to_value = << >>
    /\ s_ev = << >>

\* ------------------------------------------------ the NAS-bench session table
\* kurobako_problems/contrib/nasbench_problem.py
VARIABLES
    n_pc,       \* where the process stands
    n_req,      \* the request last read by the main loop
    runnings,   \* Evaluator.runnings: id -> model spec
    n_ev        \* what the process did since its last input(), in order

nvars == <<n_pc, n_req, runnings, n_ev>>

EPOCHS_LIST == <<4, 12, 36, 108>>
INNER_OPS == <<"conv1x1-bn-relu", "conv3x3-bn-relu", "maxpool3x3">>

\* Lines 32-43.
NasbenchInfo ==
    [problem_space |->
        [i \in 1 .. 26 |-> [low |-> 0, high |-> IF i <= 5 THEN Len(INNER_OPS) ELSE 1]],
     cost |-> EPOCHS_LIST[Len(EPOCHS_LIST)]]

\* Lines 49-57: the operation chosen by one of the first five params.
OpOf(v) == IF v < 1 THEN INNER_OPS[1] ELSE IF v < 2 THEN INNER_OPS[2] ELSE INNER_OPS[3]

\* Lines 61-69: the position in params (counted from 0) of the first entry of
\* each row of the upper triangle.
RowStart == <<5, 11, 16, 20, 23, 25>>

\* Lines 47-72: params_to_model_spec.
ParamsToModelSpec(ps) ==
    [ops |-> <<"input">> \o [i \in 1 .. 5 |-> OpOf(ps[i])] \o <<"output">>,
     matrix |-> [r \in 1 .. 7 |-> [c \in 1 .. 7 |->
                    IF c > r THEN ps[RowStart[r] + (c - r - 1) + 1] ELSE 0]]]

\* The exception params_to_model_spec raises, "none" if it does not.
ParamsExc(ps) ==
    LET bad == {i \in 1 .. 5 : i > Len(ps) \/ ps[i] >= 3} IN
    IF bad # {}
    THEN LET i == CHOOSE x \in bad : \A y \in bad : x <= y
         IN IF i > Len(ps) THEN "IndexError" ELSE "ValueError"
    ELSE IF Len(ps) < 26 THEN "IndexError" ELSE "none"

\* Lines 83-87: the id is registered when nasbench.is_valid answers true.
RegisterAlways(rs, id, ms, valid) == Put(rs, id, ms)
Register(rs, id, ms, valid) == IF valid THEN Put(rs, id, ms) ELSE rs

\* Lines 97-100: the loop over EPOCHS_LIST, entered at position i.
RECURSIVE EpochsFrom(_, _)
EpochsFrom(i, b) ==
    IF EPOCHS_LIST[i] >= b \/ i = Len(EPOCHS_LIST) THEN EPOCHS_LIST[i]
    ELSE EpochsFrom(i + 1, b)

EpochsLargest(b) == EPOCHS_LIST[Len(EPOCHS_LIST)]
Epochs(b) == EpochsFrom(1, b)

IsValidAnswer(a) == [e |-> "is_valid", answer |-> a]

\* Lines 25-44: start-up, up to the first input() of the main loop.
NasbenchStart ==
    /\ n_pc = "boot"
    /\ n_ev' = <<Printed(NasbenchInfo)>>
    /\ n_pc' = "loop"
    /\ UNCHANGED <<n_req, runnings>>

NasbenchDies(exc) ==
    /\ n_pc' = "dead"
    /\ n_ev' = <<Raised(exc)>>
    /\ UNCHANGED runnings

\* Lines 110-118 with the three handlers (lines 79-105): one request.  valid
\* is the answer of nasbench.is_valid, acc the validation accuracy queried.
NasbenchRecv(r, valid, acc) ==
    /\ n_pc = "loop"
    /\ n_req' = r
    /\ IF r.kind = "start_eval" THEN
            IF r.eval_id \in DOMAIN runnings THEN NasbenchDies("AssertionError")
            ELSE IF ParamsExc(r.params) # "none" THEN NasbenchDies(ParamsExc(r.params))
            ELSE /\ runnings' = Register(runnings, r.eval_id,
                                         ParamsToModelSpec(r.params), valid)
                 /\ n_ev' = <<IsValidAnswer(valid), Printed([ok |-> valid])>>
                 /\ UNCHANGED n_pc
       ELSE IF r.kind = "finish_eval" THEN
            IF r.eval_id \notin DOMAIN runnings THEN NasbenchDies("KeyError")
            ELSE /\ runnings' = Del(runnings, r.eval_id)
                 /\ n_ev' = << >>
                 /\ UNCHANGED n_pc
       ELSE IF r.kind = "eval" THEN
            IF r.eval_id \notin DOMAIN runnings THEN NasbenchDies("AssertionError")
            ELSE /\ n_ev' = <<Printed([value |-> 1 - acc, cost |-> Epochs(r.budget)])>>
                 /\ UNCHANGED <<n_pc, runnings>>
       ELSE NasbenchDies("ValueError")

NasbenchBoot ==
    /\ n_pc = "boot"
    /\ n_req = NoMessage
    /\ runnings = << >>
    /\ n_ev = << >>

ovars == <<svars, nvars>>

OtherBoot == SigoptBoot /\ NasbenchBoot

\* ------------------------------------------------------------ the harness
VARIABLES
    h_id,       \* the number of id hints handed out so far
    h_pc,       \* relay: "idle", or "evaluated" once an EVALUATE_CALL is out
    h_created   \* relay: the ids for which a CREATE_EVALUATOR_CAST was sent

hvars == <<h_id, h_pc, h_created>>

vars == <<avars, tvars, hvars, ovars>>

\* --- the harness seen by the adapter alone
\* The harness is not part of these sources.  It hands out fresh id hints
\* (ASK_CALL), addresses TELL_CALLs to the trial of the last ASK_REPLY, and is
\* otherwise unconstrained: any consumption, the amount echoed (up to
\* MaxExpense) or zeroed, any value, unknown message tags.
AskCalls == IF h_id < MaxId THEN {[type |-> "ASK_CALL", id_hint |-> h_id + 1]} ELSE {}

TellAmounts ==
    {0} \cup (IF ask_res.type = "ASK_REPLY" /\ ask_res.budget.amount <= MaxExpense
              THEN {ask_res.budget.amount} ELSE {})

TellCalls ==
    {[type |-> "TELL_CALL", id |-> next_id, values |-> <<v>>,
      budget |-> [amount |-> a, consumption |-> c]] :
        v \in Values, a \in TellAmounts, c \in 0 .. (MaxExpense + 1)}

UnknownCalls == {[type |-> "PING"]}

HarnessMsgs == AskCalls \cup TellCalls \cup UnknownCalls

\* Where the adapter reads a message only for its id_hint, one TELL_CALL
\* stands for them all.
HintMsgs ==
    AskCalls \cup UnknownCalls
    \cup {[type |-> "TELL_CALL", id |-> next_id, values |-> <<0>>,
           budget |-> [amount |-> 0, consumption |-> 0]]}

Handed(m) == h_id' = IF m.type = "ASK_CALL" THEN h_id + 1 ELSE h_id

AdapterDomains ==
    { <<Categorical("a", <<"p", "q">>), Conditional("c", "a", <<"p">>, Discrete("n", 1, 2))>>,
      <<[kind |-> "ordinal", name |-> "o"]>> }

AdapterProblems ==
    {[type |-> "PROBLEM_SPEC_CAST", params_domain |-> d, evaluation_expense |-> e] :
        d \in AdapterDomains, e \in 1 .. MaxExpense}

\* --- the harness seen by the session table alone: any request for a few
\* ids, with any budget; a session is not trained beyond MaxIter rounds.
WireLow(c) ==
    [i \in 1 .. Len(params_domain) |->
        IF params_domain[i].kind = "continuous" THEN [continuous |-> params_domain[i].range.low]
        ELSE IF params_domain[i].kind = "discrete" THEN [discrete |-> params_domain[i].range.low]
        ELSE [categorical |-> c]]

TableParams == {WireLow(0), WireLow(1), <<[continuous |-> 4]>>}

Sessions == 1 .. MaxSession

Budgets == {[amount |-> a, consumption |-> c] : a \in 0 .. MaxExpense, c \in 0 .. MaxExpense}

Trainable(id) ==
    id \in DOMAIN evaluators =>
        (evaluators[id] = None \/ current_iteration(evaluators[id].gbm) < MaxIter)

TableRequests ==
    {[type |-> "CREATE_EVALUATOR_CAST", id |-> i] : i \in Sessions}
    \cup {[type |-> "DROP_EVALUATOR_CAST", id |-> i] : i \in Sessions}
    \cup {[type |-> "EVALUATE_CALL", id |-> i, params |-> ps, budget |-> b] :
            i \in {x \in Sessions : Trainable(x)}, ps \in TableParams, b \in Budgets}
    \cup UnknownCalls

\* --- the relaying harness of the composed system.  It passes the problem
\* specification on to the solver (a continuous domain without a distribution
\* is uniform), creates an evaluator for an id it has not seen, relays the
\* ASK_REPLY as EVALUATE_CALL and the EVALUATE_OK_REPLY as TELL_CALL, sends
\* an ASK_CALL with a fresh id hint after every TELL_REPLY, may preempt a
\* trial, and drops the evaluators of the trials that are over.
DeriveDomain(p) ==
    IF p.kind = "continuous" /\ "distribution" \notin DOMAIN p
    THEN p @@ [distribution |-> "uniform"] ELSE p

DeriveProblemSpec(ps) ==
    [ps EXCEPT !.params_domain = [i \in 1 .. Len(@) |-> DeriveDomain(@[i])]]

FreshAsk == [type |-> "ASK_CALL", id_hint |-> h_id + 1]

Stale == {i \in h_created : i # ask_res.id}

\* The draw of the sampler in the composed system.
SysDraw == (trial.number + Len(params)) % 2

H_Problem ==
    /\ t_pc = "loop"
    /\ InitProblem(DeriveProblemSpec(PROBLEM_SPEC))
    /\ UNCHANGED <<ovars, tvars, hvars>>

H_Hint ==
    /\ h_id < MaxId
    /\ InitId(FreshAsk)
    /\ h_id' = h_id + 1
    /\ UNCHANGED <<ovars, tvars, h_pc, h_created>>

H_Drop ==
    /\ a_pc = "await_tell" /\ h_pc = "idle"
    /\ \E i \in Stale :
         /\ TableRecv([type |-> "DROP_EVALUATOR_CAST", id |-> i], 0)
         /\ h_created' = h_created \ {i}
    /\ UNCHANGED <<ovars, avars, h_id, h_pc>>

H_Create ==
    /\ a_pc = "await_tell" /\ h_pc = "idle"
    /\ Stale = {} /\ ask_res.id \notin h_created
    /\ TableRecv([type |-> "CREATE_EVALUATOR_CAST", id |-> ask_res.id], 0)
    /\ h_created' = h_created \cup {ask_res.id}
    /\ UNCHANGED <<ovars, avars, h_id, h_pc>>

H_Evaluate(v) ==
    /\ a_pc = "await_tell" /\ h_pc = "idle"
    /\ Stale = {} /\ ask_res.id \in h_created
    /\ TableRecv([type |-> "EVALUATE_CALL", id |-> ask_res.id,
                  params |-> ask_res.params, budget |-> ask_res.budget], v)
    /\ h_pc' = "evaluated"
    /\ UNCHANGED <<ovars, avars, h_id, h_created>>

H_Tell(sp) ==
    /\ h_pc = "evaluated" /\ t_pc = "loop"
    /\ AwaitTell([type |-> "TELL_CALL", id |-> ask_res.id,
                  values |-> t_ev[1].m.values, budget |-> t_ev[1].m.budget], sp)
    /\ h_pc' = "idle"
    /\ UNCHANGED <<ovars, tvars, h_id, h_created>>

H_Preempt ==
    /\ h_pc = "idle" /\ h_id < MaxId
    /\ AwaitTell(FreshAsk, FALSE)
    /\ h_id' = h_id + 1
    /\ UNCHANGED <<ovars, tvars, h_pc, h_created>>

H_Ask ==
    /\ h_id < MaxId
    /\ \/ AwaitAskDone(FreshAsk)
       \/ AwaitAskPrune(FreshAsk)
       \/ AwaitAskCont(FreshAsk)
    /\ h_id' = h_id + 1
    /\ UNCHANGED <<ovars, tvars, h_pc, h_created>>

\* ============================================================ specifications
AdapterBoot ==
    /\ a_pc = "boot"
    /\ problem = NoMessage
    /\ next_id = 0
    /\ params = << >>
    /\ trial = NewTrial(0)
    /\ message = NoMessage
    /\ budget = [amount |-> 0, consumption |-> 0]
    /\ value = 0
    /\ ask_res = NoMessage
    /\ ev = << >>
    /\ finished = NoTrial
    /\ pruned = {}

TableBoot ==
    /\ t_pc = "boot"
    /\ req = NoMessage
    /\ evaluators = << >>
    /\ t_ev = << >>

HarnessBoot ==
    /\ h_id = 0
    /\ h_pc = "idle"
    /\ h_created = {}

\* The adapter against any harness.
InitAdapter ==
    /\ OtherBoot
    /\ pruner \in PrunerArgs
    /\ AdapterBoot /\ HarnessBoot
    /\ TableBoot /\ min_iterations = 1 /\ num_boost_round = 1

NextAdapter ==
    /\ \/ SolverStart /\ UNCHANGED h_id
       \/ \E m \in AdapterProblems : InitProblem(m) /\ UNCHANGED h_id
       \/ \E m \in HintMsgs : InitId(m) /\ Handed(m)
       \/ \E k \in AdapterPicks : SuggestParam(k) /\ UNCHANGED h_id
       \/ SendAsk /\ UNCHANGED h_id
       \/ \E m \in HarnessMsgs, sp \in BOOLEAN : AwaitTell(m, sp) /\ Handed(m)
       \/ \E m \in HintMsgs : AwaitAskDone(m) /\ Handed(m)
       \/ \E m \in HintMsgs : AwaitAskPrune(m) /\ Handed(m)
       \/ \E m \in HintMsgs : AwaitAskCont(m) /\ Handed(m)
    /\ UNCHANGED <<ovars, tvars, h_pc, h_created>>

SpecAdapter == InitAdapter /\ [][NextAdapter]_vars

\* One call of the objective, for a range of parameter domains.
SuggestDomains ==
    LET A == Categorical("a", <<"p", "q", "r">>)
        B == Categorical("b", <<"u", "v">>)
        M == Discrete("m", 1, 3)
    IN { <<A, Conditional("c", "a", <<"p">>, M)>>,
         <<Conditional("c", "a", <<"p">>, M), A>>,
         <<A, B, Conditional("c", "a", <<"p", "q">>,
                     Conditional("d", "b", <<"u">>, Uniform("z", 0, 2)))>>,
         <<B, Conditional("c", "b", <<"u">>, Conditional("d", "a", <<"p">>, M)), A>>,
         <<A, Conditional("c", "w", <<"p">>, LogUniform("y", 1, 3))>>,
         <<Uniform("x", 0, 2), LogUniform("y", 1, 3), Discrete("n", 1, 2)>>,
         <<Categorical("e", <<"u", "v", "u">>), Discrete("n", 1, 2)>>,
         <<[kind |-> "continuous", name |-> "g", distribution |-> "normal",
            range |-> [low |-> 0, high |-> 1]]>>,
         <<[kind |-> "ordinal", name |-> "o"]>> }

\* It starts where study.optimize first calls the objective.
InitSuggest ==
    /\ OtherBoot
    /\ pruner \in PrunerArgs
    /\ a_pc = "call"
    /\ problem \in {[type |-> "PROBLEM_SPEC_CAST", params_domain |-> d,
                      evaluation_expense |-> 1] : d \in SuggestDomains}
    /\ next_id = 1
    /\ params = << >>
    /\ trial = NewTrial(1)
    /\ message = NoMessage
    /\ budget = [amount |-> 0, consumption |-> 0]
    /\ value = 0
    /\ ask_res = NoMessage
    /\ ev = <<Stored(1)>>
    /\ finished = NoTrial
    /\ pruned = {}
    /\ h_id = 1 /\ h_pc = "idle" /\ h_created = {}
    /\ TableBoot /\ min_iterations = 1 /\ num_boost_round = 1

NextSuggest ==
    /\ \/ \E k \in Picks : SuggestParam(k)
       \/ SendAsk
    /\ UNCHANGED <<ovars, tvars, hvars>>

SpecSuggest == InitSuggest /\ [][NextSuggest]_vars

\* The session table against any harness.
InitTable ==
    /\ OtherBoot
    /\ min_iterations \in MinIterationsArgs
    /\ num_boost_round = MaxExpense
    /\ TableBoot /\ HarnessBoot
    /\ AdapterBoot /\ pruner = "none"

NextTable ==
    /\ \/ TableStart
       \/ \E r \in TableRequests, v \in Values : TableRecv(r, v)
    /\ UNCHANGED <<ovars, avars, hvars>>

SpecTable == InitTable /\ [][NextTable]_vars

\* The adapter and the session table joined by the relaying harness.
InitSys ==
    /\ OtherBoot
    /\ pruner \in PrunerArgs
    /\ min_iterations \in MinIterationsArgs
    /\ num_boost_round \in 1 .. MaxExpense
    /\ AdapterBoot /\ TableBoot /\ HarnessBoot

NextSys ==
    \/ SolverStart /\ UNCHANGED <<ovars, tvars, hvars>>
    \/ TableStart /\ UNCHANGED <<ovars, avars, hvars>>
    \/ H_Problem
    \/ H_Hint
    \/ SuggestParam(SysDraw) /\ UNCHANGED <<ovars, tvars, hvars>>
    \/ SendAsk /\ UNCHANGED <<ovars, tvars, hvars>>
    \/ H_Drop
    \/ H_Create
    \/ \E v \in Values : H_Evaluate(v)
    \/ \E sp \in BOOLEAN : H_Tell(sp)
    \/ H_Preempt
    \/ H_Ask

SpecSys == InitSys /\ [][NextSys]_vars

\* The composed system when the harness never preempts a trial and the
\* pruning policy never prunes; every step that can be taken is taken.
H_AskOn ==
    /\ h_id < MaxId
    /\ \/ AwaitAskDone(FreshAsk)
       \/ AwaitAskCont(FreshAsk)
    /\ h_id' = h_id + 1
    /\ UNCHANGED <<ovars, tvars, h_pc, h_created>>

NextLive ==
    \/ SolverStart /\ UNCHANGED <<ovars, tvars, hvars>>
    \/ TableStart /\ UNCHANGED <<ovars, avars, hvars>>
    \/ H_Problem
    \/ H_Hint
    \/ SuggestParam(SysDraw) /\ UNCHANGED <<ovars, tvars, hvars>>
    \/ SendAsk /\ UNCHANGED <<ovars, tvars, hvars>>
    \/ H_Drop
    \/ H_Create
    \/ \E v \in Values : H_Evaluate(v)
    \/ H_Tell(FALSE)
    \/ H_AskOn

SpecLive == InitSys /\ [][NextLive]_vars /\ WF_vars(NextLive)

\* The evalset session table against any harness: any request for a few ids.
SigoptParams == {<<0>>, <<1>>}

SigoptRequests ==
    {[kind |-> "start_eval", eval_id |-> i, params |-> ps] :
        i \in Sessions, ps \in SigoptParams}
    \cup {[kind |-> k, eval_id |-> i] : k \in {"finish_eval", "eval"}, i \in Sessions}
    \cup {[kind |-> "ping"]}

InitSigopt ==
    /\ AdapterBoot /\ pruner = "none"
    /\ TableBoot /\ min_iterations = 1 /\ num_boost_round = 1
    /\ HarnessBoot
    /\ OtherBoot

NextSigopt ==
    /\ \/ SigoptStart
       \/ \E r \in SigoptRequests, y \in Values : SigoptRecv(r, y)
    /\ UNCHANGED <<avars, tvars, hvars, nvars>>

SpecSigopt == InitSigopt /\ [][NextSigopt]_vars

\* The NAS-bench session table against any harness: any request for a few
\* ids, with params inside and outside the problem space and budgets around
\* every entry of EPOCHS_LIST.
NasbenchParams ==
    { [i \in 1 .. 26 |-> 0],
      [i \in 1 .. 26 |-> IF i <= 5 THEN 2 ELSE 1],
      [i \in 1 .. 26 |-> IF i = 2 THEN 3 ELSE 0],
      <<0>> }

NasbenchBudgets == {0, 3, 4, 5, 12, 13, 36, 37, 108, 109}

NasbenchRequests ==
    {[kind |-> "start_eval", eval_id |-> i, params |-> ps] :
        i \in Sessions, ps \in NasbenchParams}
    \cup {[kind |-> "finish_eval", eval_id |-> i] : i \in Sessions}
    \cup {[kind |-> "eval", eval_id |-> i, budget |-> b] :
            i \in Sessions, b \in NasbenchBudgets}
    \cup {[kind |-> "ping"]}

InitNasbench ==
    /\ AdapterBoot /\ pruner = "none"
    /\ TableBoot /\ min_iterations = 1 /\ num_boost_round = 1
    /\ HarnessBoot
    /\ OtherBoot

NextNasbench ==
    /\ \/ NasbenchStart
       \/ \E r \in NasbenchRequests, valid \in BOOLEAN, acc \in Values :
             NasbenchRecv(r, valid, acc)
    /\ UNCHANGED <<avars, tvars, hvars, svars>>

SpecNasbench == InitNasbench /\ [][NextNasbench]_vars

\* ================================================================ properties

Expense == problem.evaluation_expense
Prints(es) == SelectSeq(es, LAMBDA x : x.e = "print")
TrialEnds == finished' # finished

\* The budgets of the messages now held by the two processes and the harness:
\* the ASK_REPLY last printed, the TELL_CALL last read, the EVALUATE_CALL last
\* read and the EVALUATE_OK_REPLY printed for it.
Replies == {t_ev[i].m : i \in {j \in 1 .. Len(t_ev) : t_ev[j].e = "print"}}
OkReplies == {m \in Replies : m.type = "EVALUATE_OK_REPLY"}
BudgetsInFlight ==
    (IF ask_res.type = "ASK_REPLY" THEN {ask_res.budget} ELSE {})
    \cup (IF message.type = "TELL_CALL" THEN {message.budget} ELSE {})
    \cup (IF req.type = "EVALUATE_CALL" THEN {req.budget} ELSE {})
    \cup {m.budget : m \in OkReplies}

\* C1: in the composed system every budget carried by a message (ASK_REPLY,
\* TELL_CALL, EVALUATE_CALL, EVALUATE_OK_REPLY) has consumption <= amount, and
\* the consumption does not decrease from an EVALUATE_CALL to its
\* EVALUATE_OK_REPLY, from an ASK_REPLY to the TELL_CALL that answers it, and
\* from that TELL_CALL to the re-issued ASK_REPLY.
C1_BudgetInvariant ==
    /\ \A b \in BudgetsInFlight : b.consumption <= b.amount
    /\ \A m \in OkReplies : m.budget.consumption >= req.budget.consumption
    /\ a_pc \in {"await_ask_done", "await_ask_prune", "await_ask_cont"}
         => message.budget.consumption >= ask_res.budget.consumption
    /\ (a_pc = "await_tell" /\ Len(ev) = 1 /\ message.type = "ASK_CALL")
         => ask_res.budget.consumption >= budget.consumption

\* C2: the callback returns a value exactly on a TELL_CALL whose consumption
\* equals the evaluation expense: while the adapter waits with a value to
\* return, the message it holds is such a TELL_CALL, the value is values[0]
\* and the one message printed since is TELL_REPLY; such a TELL_CALL always
\* leads there; from there the trial can only end COMPLETE with that value
\* (or the process exits), printing nothing more; no trial ends twice, and no
\* trial ends COMPLETE in any other way.
C2_WaitingToReturn ==
    a_pc = "await_ask_done" =>
        /\ message.type = "TELL_CALL"
        /\ message.budget.consumption = Expense
        /\ value = message.values[1]
        /\ ev = <<Printed(TELL_REPLY)>>
C2_Step ==
    /\ (a_pc = "await_tell" /\ message'.type = "TELL_CALL")
         => (a_pc' = "await_ask_done" <=> message'.budget.consumption = Expense)
    /\ a_pc = "await_ask_done" =>
         \/ a_pc' = "dead" /\ ~TrialEnds /\ Prints(ev') = << >>
         \/ /\ a_pc' = "call"
            /\ finished' = [number |-> trial.number, id |-> ask_res.id,
                            state |-> "COMPLETE", values |-> <<message.values[1]>>]
            /\ ev' = <<Stored(next_id'), Returned(message.values[1])>>
            /\ trial'.number = trial.number + 1
    /\ TrialEnds =>
         /\ finished'.number > finished.number
         /\ finished'.state = "COMPLETE" <=> a_pc = "await_ask_done"
C2_ReturnIffTerminalTell == [](C2_WaitingToReturn) /\ [][C2_Step]_vars
C2_Witness ==
    /\ finished.state = "COMPLETE" /\ finished.values = <<1>>
    /\ a_pc = "await_tell" /\ ask_res.id # finished.id
    /\ Prints(ev) = <<Printed(ask_res)>>

\* C3: once a trial is PRUNED the adapter prints no ASK_REPLY with its id and
\* takes no TELL_CALL for it: no running trial has a pruned id, every
\* ASK_REPLY printed and every TELL_CALL taken carries an id that is not
\* pruned, and right after the prune the adapter is about to ask for the new
\* id (the only thing it prints next is that ASK_REPLY).
C3_NoPrunedIdInUse ==
    /\ a_pc \in {"await_tell", "await_ask_done", "await_ask_prune", "await_ask_cont"}
         => ask_res.id \notin pruned
    /\ a_pc = "call" => next_id \notin pruned
C3_Step ==
    /\ ask_res' # ask_res => ask_res'.id \notin pruned'
    /\ (a_pc = "await_tell" /\ message'.type = "TELL_CALL") => message'.id \notin pruned
    /\ pruned' # pruned =>
         /\ a_pc' = "call" /\ Prints(ev') = << >>
         /\ pruned' = pruned \cup {ask_res.id}
         /\ next_id' \notin pruned'
    /\ (a_pc = "call" /\ Prints(ev') # Prints(ev)) =>
         /\ Prints(ev') = Append(Prints(ev), Printed(ask_res'))
         /\ ask_res'.type = "ASK_REPLY" /\ ask_res'.id = next_id
C3_PruningMonotonic == [](C3_NoPrunedIdInUse) /\ [][C3_Step]_vars
C3_Witness ==
    /\ finished.state = "PRUNED" /\ finished.id \in pruned
    /\ a_pc = "await_tell" /\ ask_res.id \notin pruned
    /\ Prints(ev) = <<Printed(ask_res)>>

\* C4: on a TELL_CALL below the evaluation expense for which should_prune
\* answers true, the adapter reports (value, step), then prints one
\* TELL_REPLY, then reads the next message and stores its id_hint, then
\* raises TrialPruned: the trial ends PRUNED, without a value, neither
\* COMPLETE nor FAIL.
C4_AfterPruneDecision ==
    (ev # << >> /\ \E i \in 1 .. Len(ev) : ev[i].e = "should_prune" /\ ev[i].answer) =>
        /\ a_pc = "await_ask_prune"
        /\ message.type = "TELL_CALL" /\ message.budget.consumption < Expense
        /\ ev = <<Reported(message.values[1], message.budget.consumption),
                  Asked(message.budget.consumption, TRUE),
                  Printed(TELL_REPLY)>>
C4_Step ==
    (a_pc = "await_ask_prune" /\ message'.type = "ASK_CALL") =>
        /\ next_id' = message'.id_hint
        /\ ev' = <<Stored(message'.id_hint), Raised("TrialPruned")>>
        /\ finished' = [number |-> trial.number, id |-> ask_res.id,
                        state |-> "PRUNED", values |-> << >>]
        /\ a_pc' = "call"
C4_PruneSequence == [](C4_AfterPruneDecision) /\ [][C4_Step]_vars
C4_Witness ==
    /\ finished.state = "PRUNED" /\ finished.values = << >>
    /\ ev = <<Stored(next_id), Raised("TrialPruned")>>
    /\ message.type = "ASK_CALL" /\ next_id = message.id_hint

\* C5: an ASK_CALL read while a TELL_CALL is awaited ends the trial with the
\* outcome of a policy-driven prune (PRUNED, no value, nothing reported), and
\* its id_hint is the id of the next trial.
C5_Step ==
    (a_pc = "await_tell" /\ message'.type = "ASK_CALL") =>
        /\ finished'.state = "PRUNED" /\ finished'.values = << >>
        /\ \A i \in 1 .. Len(ev') : ev'[i].e # "report"
        /\ next_id' = message'.id_hint
C5_PreemptionIsPrune == [][C5_Step]_vars

\* C6: the first ASK_REPLY of a trial asks for the whole evaluation expense
\* when the pruner is 'none' and for one step otherwise, with consumption 0.
C6_Step ==
    (a_pc = "call" /\ a_pc' = "await_tell") =>
        /\ ask_res'.type = "ASK_REPLY"
        /\ ask_res'.budget =
             [amount |-> IF pruner = "none" THEN Expense ELSE 1, consumption |-> 0]
        /\ ev' = Append(ev, Printed(ask_res'))
C6_InitialBudget == [][C6_Step]_vars
C6_Witness ==
    /\ a_pc = "await_tell" /\ pruner = "median" /\ Expense = MaxExpense
    /\ ask_res.budget = [amount |-> 1, consumption |-> 0]
    /\ Prints(ev) = <<Printed(ask_res)>>

\* C7: on a TELL_CALL below the evaluation expense that is not pruned, the
\* adapter stays in the trial and prints an ASK_REPLY with the id and params
\* of the trial's previous ASK_REPLY, the TELL_CALL's consumption, and the
\* TELL_CALL's amount plus 1 (the previous ASK_REPLY's amount plus 1 when the
\* harness echoed the amount).
C7_Step ==
    a_pc = "await_ask_cont" =>
        /\ message.type = "TELL_CALL" /\ message.budget.consumption < Expense
        /\ a_pc' = "await_tell"
        /\ ask_res'.type = "ASK_REPLY"
        /\ ask_res'.id = ask_res.id /\ ask_res'.params = ask_res.params
        /\ ask_res'.budget = [amount |-> message.budget.amount + 1,
                              consumption |-> message.budget.consumption]
        /\ (message.budget.amount = ask_res.budget.amount
              => ask_res'.budget.amount = ask_res.budget.amount + 1)
        /\ ev' = <<Printed(ask_res')>>
        /\ trial' = trial /\ finished' = finished
C7_ReAsk == [][C7_Step]_vars
C7_Witness ==
    /\ a_pc = "await_tell" /\ message.type = "ASK_CALL"
    /\ ask_res.budget = [amount |-> 2, consumption |-> 1]
    /\ ask_res.id # message.id_hint
    /\ ev = <<Printed(ask_res)>>


\* What _suggest must do for the domain p on a trial whose params are tp:
\* w is the wire value it returned and cs the sampler calls it made.
RECURSIVE C8_AsDeclared(_, _, _, _)
C8_AsDeclared(p, tp, w, cs) ==
    IF p.kind # "conditional"
    THEN /\ Len(cs) = 1 /\ cs[1].name = p.name
         /\ DOMAIN w = {p.kind}
    ELSE LET dep == p.condition.member.name
             among == dep \in DOMAIN tp
                      /\ \E i \in 1 .. Len(p.condition.member.choices) :
                             p.condition.member.choices[i] = tp[dep]
         IN IF among
            THEN DOMAIN w = {"conditional"} /\ C8_AsDeclared(p.param, tp, w.conditional, cs)
            ELSE w = [conditional |-> None] /\ cs = << >>

\* C8: for a conditional domain, nested or not: when the dependent parameter
\* has no value yet in this trial, or a value that is not among the
\* condition's choices, _suggest returns {'conditional': None} and calls no
\* sampler; otherwise the nested domain is sampled once and wrapped.
C8_Step ==
    (a_pc = "call" /\ Len(params') = Len(params) + 1) =>
        LET p == problem.params_domain[Len(params')] IN
        p.kind = "conditional" =>
            C8_AsDeclared(p, trial.params, params'[Len(params')],
                          SubSeq(trial'.calls, Len(trial.calls) + 1, Len(trial'.calls)))
C8_ConditionalSampling == [][C8_Step]_vars
C8_Witness ==
    /\ Len(params) = 3 /\ Len(trial.calls) = 2
    /\ params[3] = [conditional |-> [conditional |-> None]]
    /\ trial.params["a"] = "q" /\ trial.params["b"] = "v"

RECURSIVE LeafOf(_)
LeafOf(p) == IF p.kind = "conditional" THEN LeafOf(p.param) ELSE p
Leaves == {LeafOf(problem.params_domain[i]) : i \in 1 .. Len(problem.params_domain)}

\* C9: a continuous domain is sampled with the capability of its declared
\* distribution: 'log-uniform' with suggest_loguniform, 'uniform' with
\* suggest_uniform.
C9_DistributionPreserved ==
    \A i \in 1 .. Len(trial.calls) : \A p \in Leaves :
        (p.name = trial.calls[i].name /\ p.kind = "continuous") =>
            trial.calls[i].fn = IF p.distribution = "log-uniform"
                                THEN "suggest_loguniform" ELSE "suggest_uniform"

\* C10: in the session table a create of an id that is present, and a drop or
\* an evaluate of an id that is not, end the process with nothing printed and
\* the table as it was; a create or drop that succeeds adds or removes that
\* id and no other, so an id present stays until it is dropped.
C10_Step ==
    t_pc = "loop" =>
        LET present == req'.id \in DOMAIN evaluators
            failed == /\ t_pc' = "dead" /\ Prints(t_ev') = << >>
                      /\ evaluators' = evaluators
        IN /\ req'.type = "CREATE_EVALUATOR_CAST" =>
                IF present THEN failed
                ELSE /\ t_pc' = "loop" /\ t_ev' = << >>
                     /\ DOMAIN evaluators' = DOMAIN evaluators \cup {req'.id}
                     /\ evaluators'[req'.id] = None
                     /\ \A i \in DOMAIN evaluators : evaluators'[i] = evaluators[i]
           /\ req'.type = "DROP_EVALUATOR_CAST" =>
                IF ~present THEN failed
                ELSE /\ t_pc' = "loop" /\ t_ev' = << >>
                     /\ DOMAIN evaluators' = DOMAIN evaluators \ {req'.id}
                     /\ \A i \in DOMAIN evaluators' : evaluators'[i] = evaluators[i]
           /\ (req'.type = "EVALUATE_CALL" /\ ~present) => failed
           /\ (req'.type = "EVALUATE_CALL" /\ present) =>
                DOMAIN evaluators' = DOMAIN evaluators
C10_SessionProtocol == [][C10_Step]_vars
C10_Witness ==
    /\ t_pc = "dead" /\ req.type = "CREATE_EVALUATOR_CAST"
    /\ req.id \in DOMAIN evaluators /\ evaluators[req.id] # None
    /\ t_ev = <<Raised("AssertionError")>>

\* C11: an EVALUATE_CALL for a session runs exactly
\* max(min_iterations, amount - consumption) boosting rounds on top of the
\* rounds the session's model already has, and an EVALUATE_OK_REPLY printed
\* for it carries the amount unchanged and the consumption of the call plus
\* the rounds run; one reply at most is printed.
C11_Rounds == Max(min_iterations, req'.budget.amount - req'.budget.consumption)
C11_Step ==
    (/\ t_pc = "loop" /\ req'.type = "EVALUATE_CALL"
     /\ req'.id \in DOMAIN evaluators /\ evaluators' # evaluators) =>
        LET before == IF evaluators[req'.id] = None THEN 0
                      ELSE evaluators[req'.id].gbm.iteration
        IN /\ evaluators'[req'.id].gbm.iteration = before + C11_Rounds
           /\ Len(Prints(t_ev')) <= 1
           /\ \A i \in 1 .. Len(Prints(t_ev')) :
                /\ Prints(t_ev')[i].m.type = "EVALUATE_OK_REPLY"
                /\ Prints(t_ev')[i].m.budget =
                       [amount |-> req'.budget.amount,
                        consumption |-> req'.budget.consumption + C11_Rounds]
C11_ContinuedTraining == [][C11_Step]_vars
\* A second evaluate {amount: 2, consumption: 1} of a session answered with
\* consumption 2 after one more round.
C11_Witness ==
    /\ t_pc = "loop" /\ min_iterations = 1
    /\ req.type = "EVALUATE_CALL" /\ req.budget = [amount |-> 2, consumption |-> 1]
    /\ evaluators[req.id].gbm.iteration = 2
    /\ Len(t_ev) = 1 /\ t_ev[1].m.budget = [amount |-> 2, consumption |-> 2]

\* C12: the params of an ASK_REPLY have one entry per entry of the
\* params-domain, in its order and with its variant tag; a categorical entry
\* is an index into the choices at which the evaluator's decoding
\* (choices[index]) finds the choice that was sampled; a continuous or
\* discrete entry decodes to the value that was sampled; a conditional entry
\* is None or the entry of its nested domain.
RECURSIVE C12_Entry(_, _, _)
C12_Entry(p, w, tp) ==
    /\ DOMAIN w = {p.kind}
    /\ IF p.kind = "categorical"
       THEN /\ w.categorical \in 0 .. (Len(p.choices) - 1)
            /\ p.name \in DOMAIN tp
            /\ DecodeOne(p, w) = tp[p.name]
       ELSE IF p.kind \in {"continuous", "discrete"}
       THEN /\ p.name \in DOMAIN tp
            /\ DecodeOne(p, w) = tp[p.name]
       ELSE /\ p.kind = "conditional"
            /\ w.conditional # None => C12_Entry(p.param, w.conditional, tp)
C12_WireRoundTrip ==
    ask_res.type = "ASK_REPLY" =>
        /\ Len(ask_res.params) = Len(problem.params_domain)
        /\ \A i \in 1 .. Len(ask_res.params) :
              C12_Entry(problem.params_domain[i], ask_res.params[i], trial.params)
\* An ASK_REPLY for a choices list with a repeated choice, the second choice
\* sampled and sent as index 1.
C12_Witness ==
    /\ ask_res.type = "ASK_REPLY"
    /\ problem.params_domain[1].name = "e"
    /\ ask_res.params = <<[categorical |-> 1], [discrete |-> 2]>>
    /\ trial.params["e"] = "v"

\* C13: the solver prints SOLVER_SPEC_CAST as its first message and only
\* then; it reads one message that it stores as the problem specification,
\* then one message whose id_hint it stores, before it prints an ASK_REPLY;
\* it never comes back to any of these three points and never stores another
\* problem specification.
C13_Startup == {"boot", "init_problem", "init_id"}
C13_SpecPrinted == \E i \in 1 .. Len(ev) : ev[i] = Printed(SPEC)
C13_Exchanged ==
    /\ a_pc = "boot" => ev = << >> /\ problem = NoMessage
    /\ a_pc = "init_problem" => ev = <<Printed(SPEC)>> /\ problem = NoMessage
    /\ a_pc = "init_id" => ev = << >> /\ problem # NoMessage
    /\ a_pc \in C13_Startup => ask_res = NoMessage /\ trial = NewTrial(0)
    /\ C13_SpecPrinted => a_pc = "init_problem"
C13_Step ==
    /\ a_pc = "boot" => a_pc' = "init_problem"
    /\ a_pc = "init_problem" => a_pc' = "init_id"
    /\ a_pc = "init_id" =>
          \/ a_pc' = "call" /\ ev' = <<Stored(next_id')>> /\ trial' = NewTrial(1)
          \/ a_pc' = "dead" /\ Prints(ev') = << >>
    /\ a_pc \notin C13_Startup => a_pc' \notin C13_Startup
    /\ problem' # problem => a_pc = "init_problem"
C13_SpecExchangeOnce == [](C13_Exchanged) /\ [][C13_Step]_vars
\* The second trial of a run asks under the problem specification read at
\* start-up.
C13_Witness ==
    /\ a_pc = "await_tell" /\ trial.number = 2
    /\ problem.type = "PROBLEM_SPEC_CAST"
    /\ Prints(ev) = <<Printed(ask_res)>>

\* C14: the problem process prints PROBLEM_SPEC_CAST before it reads
\* anything, as its first output and never again; whatever it prints after
\* reading a request is one EVALUATE_OK_REPLY, and the request is an
\* EVALUATE_CALL.
C14_Outputs == {t_ev[i].m : i \in {j \in 1 .. Len(t_ev) : t_ev[j].e = "print"}}
C14_SpecFirst ==
    /\ t_pc = "boot" => t_ev = << >> /\ req = NoMessage
    /\ (t_pc = "loop" /\ req = NoMessage) => t_ev = <<Printed(PROBLEM_SPEC)>>
    /\ req # NoMessage =>
          /\ Len(Prints(t_ev)) <= 1
          /\ \A m \in C14_Outputs :
                m.type = "EVALUATE_OK_REPLY" /\ req.type = "EVALUATE_CALL"
C14_Step ==
    /\ t_pc = "boot" => (t_pc' = "loop" /\ req' = req)
    /\ t_pc # "boot" => t_pc' # "boot"
C14_ProblemSpecOnce == [](C14_SpecFirst) /\ [][C14_Step]_vars
\* The first evaluate of a session answered, after a create that printed
\* nothing.
C14_Witness ==
    /\ t_pc = "loop" /\ req.type = "EVALUATE_CALL"
    /\ Len(t_ev) = 1 /\ t_ev[1].m.type = "EVALUATE_OK_REPLY"
    /\ evaluators[req.id].gbm.iteration = 1

\* C15: the adapter never prints two messages without reading one in
\* between, and whenever it blocks reading inside a trial (for the TELL_CALL,
\* or for the ASK_CALL after a TELL_REPLY) it has printed exactly one message
\* since it last read one: sends and receives alternate one to one.
C15_Receiving == {"await_tell", "await_ask_done", "await_ask_prune", "await_ask_cont"}
C15_TurnDiscipline ==
    /\ Len(Prints(ev)) <= 1
    /\ a_pc \in C15_Receiving => Len(Prints(ev)) = 1
\* The trial boundary of a preemption: the ASK_CALL read, the trial failed,
\* the next trial's ASK_REPLY printed.
C15_Witness ==
    /\ a_pc = "await_tell" /\ finished.state = "FAIL"
    /\ Len(ev) = 3 /\ ev[2] = Raised("KurobakoError") /\ ev[3] = Printed(ask_res)

\* C16: a message whose type is not one expected where it is read ends the
\* process with nothing printed and no trial or session state changed: in
\* the adapter a message other than ASK_CALL or TELL_CALL read at the head of
\* the loop and a message other than ASK_CALL read after a TELL_REPLY, in the
\* session table a request other than create, drop and evaluate.
C16_Fatal ==
    /\ a_pc' = "dead" /\ Prints(ev') = << >>
    /\ UNCHANGED <<next_id, params, trial, ask_res, finished, pruned>>
C16_AwaitingTell ==
    (a_pc = "await_tell" /\ message'.type \notin {"ASK_CALL", "TELL_CALL"})
        => C16_Fatal
C16_AfterTellReply ==
    (/\ a_pc \in {"await_ask_done", "await_ask_prune", "await_ask_cont"}
     /\ message'.type # "ASK_CALL") => C16_Fatal
C16_Table ==
    (/\ t_pc = "loop"
     /\ req'.type \notin {"CREATE_EVALUATOR_CAST", "DROP_EVALUATOR_CAST", "EVALUATE_CALL"})
        => (t_pc' = "dead" /\ Prints(t_ev') = << >> /\ evaluators' = evaluators)
C16_UnknownTagFatal == [][C16_AwaitingTell /\ C16_AfterTellReply /\ C16_Table]_vars

\* C17: a TELL_CALL whose consumption is lower than the consumption the
\* adapter last held for the trial (that of its last ASK_REPLY), or higher
\* than the amount of its own budget, ends the process: nothing is reported
\* to the pruning policy and nothing is printed.
C17_Reports(es) == SelectSeq(es, LAMBDA x : x.e = "report")
C17_Step ==
    (/\ a_pc = "await_tell" /\ message'.type = "TELL_CALL"
     /\ \/ message'.budget.consumption < ask_res.budget.consumption
        \/ message'.budget.consumption > message'.budget.amount)
    => (a_pc' = "dead" /\ C17_Reports(ev') = << >> /\ Prints(ev') = << >>)
C17_ConsumptionChecked == [][C17_Step]_vars

\* C18: after the training of an EVALUATE_CALL the model's iteration count
\* must equal the rounds run in this call plus the consumption given in the
\* call; when it does the EVALUATE_OK_REPLY is printed, and when it does not
\* the process ends with an AssertionError and prints nothing.
C18_Step ==
    (/\ t_pc = "loop" /\ req'.type = "EVALUATE_CALL"
     /\ req'.id \in DOMAIN evaluators /\ evaluators' # evaluators) =>
        LET progress == evaluators'[req'.id].gbm.iteration
            rounds == Max(min_iterations, req'.budget.amount - req'.budget.consumption)
        IN IF progress = rounds + req'.budget.consumption
           THEN /\ t_pc' = "loop" /\ Len(t_ev') = 1
                /\ t_ev'[1].e = "print" /\ t_ev'[1].m.type = "EVALUATE_OK_REPLY"
           ELSE /\ t_pc' = "dead" /\ t_ev' = <<Raised("AssertionError")>>
C18_ProgressAsserted == [][C18_Step]_vars
\* A session with one round trained is sent an EVALUATE_CALL that gives
\* consumption 0: the assertion fails.
C18_Witness ==
    /\ t_pc = "dead" /\ t_ev = <<Raised("AssertionError")>>
    /\ req.type = "EVALUATE_CALL" /\ req.budget.consumption = 0
    /\ req.id \in DOMAIN evaluators /\ evaluators[req.id] # None
    /\ evaluators[req.id].gbm.iteration = 2 /\ min_iterations = 1

\* C19: a create stores the placeholder None; the evaluator of a session is
\* constructed by the first EVALUATE_CALL for its id, from the params of that
\* call; a later EVALUATE_CALL for the id keeps that evaluator's parameters,
\* trains its model further whatever params the call carries, and fails only
\* on the assertion about progress.
C19_Decoded(ps) ==
    [i \in 1 .. Min(Len(params_domain), Len(ps)) |-> DecodeOne(params_domain[i], ps[i])]
C19_Step ==
    (t_pc = "loop" /\ req'.type \in {"CREATE_EVALUATOR_CAST", "EVALUATE_CALL"}) =>
        LET id == req'.id
            present == id \in DOMAIN evaluators
        IN /\ (req'.type = "CREATE_EVALUATOR_CAST" /\ ~present) =>
                evaluators'[id] = None
           /\ (/\ req'.type = "EVALUATE_CALL" /\ present
               /\ evaluators[id] = None /\ evaluators' # evaluators) =>
                /\ evaluators'[id].params = C19_Decoded(req'.params)
                /\ evaluators'[id].gbm.iteration =
                      Max(min_iterations, req'.budget.amount - req'.budget.consumption)
           /\ (/\ req'.type = "EVALUATE_CALL" /\ present
               /\ evaluators[id] # None) =>
                /\ evaluators'[id].params = evaluators[id].params
                /\ evaluators'[id].gbm.iteration > evaluators[id].gbm.iteration
                /\ t_pc' = "dead" => t_ev' = <<Raised("AssertionError")>>
C19_LazyConstruction == [][C19_Step]_vars
\* A session constructed from one params list has answered a second
\* EVALUATE_CALL that carried a list no evaluator can be constructed from.
C19_Witness ==
    /\ t_pc = "loop" /\ req.type = "EVALUATE_CALL"
    /\ req.params = <<[continuous |-> 4]>>
    /\ Len(evaluators[req.id].params) = Len(params_domain)
    /\ evaluators[req.id].gbm.iteration = 2
    /\ Len(t_ev) = 1 /\ t_ev[1].m.type = "EVALUATE_OK_REPLY"

\* C20: a request for one id leaves every other id as it was, present or
\* absent, with the same evaluator and the same progress; and the table
\* changes only when a create, a drop or an evaluate is handled.
C20_Step ==
    /\ t_pc # "loop" => evaluators' = evaluators
    /\ t_pc = "loop" =>
         IF req'.type \in {"CREATE_EVALUATOR_CAST", "DROP_EVALUATOR_CAST", "EVALUATE_CALL"}
         THEN \A i \in (DOMAIN evaluators \cup DOMAIN evaluators') \ {req'.id} :
                 /\ i \in DOMAIN evaluators /\ i \in DOMAIN evaluators'
                 /\ evaluators'[i] = evaluators[i]
         ELSE evaluators' = evaluators
C20_Isolation == [][C20_Step]_vars
\* Two sessions with different parameters and different progress, the second
\* one just evaluated.
C20_Witness ==
    /\ t_pc = "loop" /\ DOMAIN evaluators = {1, 2}
    /\ req.type = "EVALUATE_CALL" /\ req.id = 2
    /\ evaluators[1] # None /\ evaluators[2] # None
    /\ evaluators[1].gbm.iteration = 2 /\ evaluators[2].gbm.iteration = 1
    /\ evaluators[1].params # evaluators[2].params
    /\ Len(t_ev) = 1 /\ t_ev[1].m.budget.consumption = 1

\* C21: in the session-table loop a create and a drop print nothing; an
\* EVALUATE_CALL that does not end the process prints exactly one
\* EVALUATE_OK_REPLY before the next request is read, with one value and the
\* request's budget in which only the consumption is updated; one that ends
\* the process prints nothing.
C21_Step ==
    t_pc = "loop" =>
        /\ req'.type \in {"CREATE_EVALUATOR_CAST", "DROP_EVALUATOR_CAST"}
              => Prints(t_ev') = << >>
        /\ (req'.type = "EVALUATE_CALL" /\ t_pc' = "loop") =>
              /\ Len(t_ev') = 1 /\ t_ev'[1].e = "print"
              /\ t_ev'[1].m.type = "EVALUATE_OK_REPLY"
              /\ Len(t_ev'[1].m.values) = 1
              /\ DOMAIN t_ev'[1].m.budget = {"amount", "consumption"}
              /\ t_ev'[1].m.budget.amount = req'.budget.amount
        /\ (req'.type = "EVALUATE_CALL" /\ t_pc' = "dead") => Prints(t_ev') = << >>
C21_OneReplyPerEvaluate == [][C21_Step]_vars
\* An EVALUATE_CALL with amount 0 answered with amount 0 and consumption 2.
C21_Witness ==
    /\ t_pc = "loop" /\ req.type = "EVALUATE_CALL"
    /\ req.budget = [amount |-> 0, consumption |-> 0]
    /\ Len(t_ev) = 1 /\ t_ev[1].m.budget = [amount |-> 0, consumption |-> 2]

\* C22: the ASK_REPLYs of a trial carry the id hint stored at the boundary
\* before the trial: next_id changes only where the initial ASK_CALL is read
\* and where a trial ends (completion, prune, preemption), to the id_hint of
\* the message read there; every ASK_REPLY printed carries next_id; and the
\* message read between a TELL_REPLY and the re-issued ASK_REPLY changes
\* neither next_id nor the id of the ASK_REPLY, whatever its id_hint.
C22_Boundary ==
    \/ a_pc \in {"init_id", "await_ask_done", "await_ask_prune"}
    \/ a_pc = "await_tell" /\ message'.type = "ASK_CALL"
C22_Running ==
    (a_pc \in C15_Receiving /\ ask_res.type = "ASK_REPLY") => ask_res.id = next_id
C22_Step ==
    /\ next_id' # next_id => C22_Boundary
    /\ (C22_Boundary /\ a_pc' = "call") =>
          /\ next_id' = h_id' /\ h_id' = h_id + 1
          /\ a_pc # "init_id" => next_id' = message'.id_hint
    /\ ask_res' # ask_res => ask_res'.id = next_id'
    /\ a_pc = "await_ask_cont" =>
          /\ next_id' = next_id /\ ask_res'.id = ask_res.id
          /\ Prints(ev') = <<Printed(ask_res')>>
C22_IdAssignment == [](C22_Running) /\ [][C22_Step]_vars
\* A re-issued ASK_REPLY after an ASK_CALL whose id_hint was not taken, and
\* the next trial asking with the hint read at the end of that trial.
C22_Witness ==
    /\ a_pc = "await_tell" /\ trial.number = 2
    /\ finished.id = 1 /\ ask_res.id = 3 /\ next_id = 3

\* C23: in the composed system, for every evaluation expense and every
\* min_iterations, with or without a pruning policy, the first trial, which
\* is neither pruned nor preempted, completes: no process ends with an
\* exception, no TELL_CALL carries a consumption beyond the evaluation
\* expense, and the trial that has asked is eventually recorded COMPLETE.
C23_NoFailure ==
    /\ a_pc # "dead" /\ t_pc # "dead"
    /\ message.type = "TELL_CALL" => message.budget.consumption <= Expense
C23_Asked == a_pc = "await_tell" /\ trial.number = 1
C23_Completed == finished.number = 1 /\ finished.state = "COMPLETE"
C23_TrialCompletes == [](C23_NoFailure) /\ (C23_Asked ~> C23_Completed)

\* C24: a TELL_CALL read by the adapter is answered by exactly one
\* TELL_REPLY, after which the adapter blocks reading the next message
\* (to complete, to prune or to continue), unless its consumption is above
\* the evaluation expense, or below it while no pruning policy is active:
\* then the process ends with an AssertionError and nothing printed.
C24_Step ==
    (a_pc = "await_tell" /\ message'.type = "TELL_CALL") =>
        LET c == message'.budget.consumption
            unanswered == c > Expense \/ (c < Expense /\ pruner = "none")
        IN IF unanswered
           THEN a_pc' = "dead" /\ ev' = <<Raised("AssertionError")>>
           ELSE /\ Prints(ev') = <<Printed(TELL_REPLY)>>
                /\ ev'[Len(ev')] = Printed(TELL_REPLY)
                /\ a_pc' \in {"await_ask_done", "await_ask_prune", "await_ask_cont"}
                /\ a_pc' = "await_ask_done" <=> c = Expense
C24_TellAnswered == [][C24_Step]_vars
\* A step result below the evaluation expense, not pruned, answered.
C24_Witness ==
    /\ a_pc = "await_ask_cont" /\ message.type = "TELL_CALL"
    /\ message.budget.consumption = 1 /\ Expense = 2
    /\ ev = <<Reported(message.values[1], 1), Asked(1, FALSE), Printed(TELL_REPLY)>>

\* C25: in the evalset session table the first eval of a started id stores
\* the value computed and replies it with cost 1; every later eval of the id
\* replies the stored value with cost 0 and changes nothing; a stored value
\* is neither replaced nor removed except by the finish_eval of its id, so
\* the costs replied for an id between start_eval and finish_eval sum to at
\* most 1.
C25_Step ==
    s_pc = "loop" =>
        /\ (s_req'.kind = "eval" /\ s_req'.eval_id \in DOMAIN id_to_params) =>
              LET id == s_req'.eval_id IN
              IF id \in DOMAIN id_to_value
              THEN /\ s_ev' = <<Printed([value |-> id_to_value[id], cost |-> 0])>>
                   /\ UNCHANGED <<id_to_params, id_to_value>>
              ELSE /\ id \in DOMAIN id_to_value'
                   /\ s_ev' = <<Printed([value |-> id_to_value'[id], cost |-> 1])>>
                   /\ UNCHANGED id_to_params
        /\ \A i \in DOMAIN id_to_value :
              IF i \in DOMAIN id_to_value'
              THEN id_to_value'[i] = id_to_value[i]
              ELSE s_req'.kind = "finish_eval" /\ s_req'.eval_id = i
C25_EvalIdempotent == [][C25_Step]_vars
\* A second eval of an id answered with the stored value 1 and cost 0.
C25_Witness ==
    /\ s_pc = "loop" /\ s_req # NoMessage /\ s_req.kind = "eval"
    /\ s_req.eval_id \in DOMAIN id_to_value
    /\ s_ev = <<Printed([value |-> 1, cost |-> 0])>>

\* C26: in the evalset session table a finish_eval of an id that is started
\* succeeds, whether or not the id was evaluated: the process goes on and
\* holds neither params nor value for the id; a finish_eval fails only for
\* an id that is not started.
C26_Step ==
    (s_pc = "loop" /\ s_req'.kind = "finish_eval") =>
        LET id == s_req'.eval_id IN
        IF id \in DOMAIN id_to_params
        THEN /\ s_pc' = "loop"
             /\ id \notin DOMAIN id_to_params' /\ id \notin DOMAIN id_to_value'
        ELSE s_pc' = "dead"
C26_FinishSucceeds == [][C26_Step]_vars

\* C27: in the NAS-bench session table an eval of a running id with budget
\* b replies as cost the smallest entry of EPOCHS_LIST that is at least b,
\* or the last entry, 108, when b is above them all: the cost is one of 4,
\* 12, 36, 108 and is at least min(b, 108).
C27_Step ==
    (/\ n_pc = "loop" /\ n_req'.kind = "eval"
     /\ n_req'.eval_id \in DOMAIN runnings) =>
        /\ Len(n_ev') = 1 /\ n_ev'[1].e = "print"
        /\ LET b == n_req'.budget
               cost == n_ev'[1].m.cost
           IN /\ cost \in {4, 12, 36, 108}
              /\ cost >= Min(b, 108)
              /\ IF b > 108 THEN cost = 108
                 ELSE cost >= b /\ \A e \in {4, 12, 36, 108} : e >= b => cost <= e
C27_EpochsChosen == [][C27_Step]_vars
\* Budget 13 answered with cost 36.
C27_Witness ==
    /\ n_pc = "loop" /\ n_req # NoMessage /\ n_req.kind = "eval"
    /\ n_req.budget = 13
    /\ Len(n_ev) = 1 /\ n_ev[1].m.cost = 36

\* C28: in the NAS-bench session table a start_eval for an id that is not
\* running, with params from which a model spec can be built (26 entries,
\* the first five below 3), prints exactly one reply, ok true when
\* nasbench.is_valid answers true and ok false otherwise, and the id becomes
\* running exactly when the reply is ok true; with other params the process
\* ends with no reply and the id not running; a start_eval for a running id,
\* and an eval or finish_eval for an id that is not running, end the process
\* with nothing printed.
C28_Fatal == n_pc' = "dead" /\ Prints(n_ev') = << >> /\ runnings' = runnings
C28_Replied ==
    /\ n_pc' = "loop"
    /\ Len(Prints(n_ev')) = 1
    /\ n_ev'[1].e = "is_valid"
    /\ Prints(n_ev')[1].m = [ok |-> n_ev'[1].answer]
    /\ n_req'.eval_id \in DOMAIN runnings' <=> n_ev'[1].answer
    /\ \A i \in DOMAIN runnings : i \in DOMAIN runnings' /\ runnings'[i] = runnings[i]
    /\ DOMAIN runnings' \subseteq DOMAIN runnings \cup {n_req'.eval_id}
C28_Others ==
    /\ (/\ n_req'.kind = "start_eval" /\ n_req'.eval_id \in DOMAIN runnings)
          => C28_Fatal
    /\ (/\ n_req'.kind \in {"eval", "finish_eval"}
        /\ n_req'.eval_id \notin DOMAIN runnings) => C28_Fatal
C28_Buildable(ps) == Len(ps) >= 26 /\ \A i \in 1 .. 5 : ps[i] < 3
C28_StepBuildable ==
    n_pc = "loop" =>
        /\ (/\ n_req'.kind = "start_eval" /\ n_req'.eval_id \notin DOMAIN runnings) =>
              IF C28_Buildable(n_req'.params) THEN C28_Replied ELSE C28_Fatal
        /\ C28_Others
C28_StartReplied == [][C28_StepBuildable]_vars
\* A start_eval rejected with ok false, its id not running.
C28_Witness ==
    /\ n_pc = "loop" /\ n_req # NoMessage /\ n_req.kind = "start_eval"
    /\ n_ev = <<IsValidAnswer(FALSE), Printed([ok |-> FALSE])>>
    /\ n_req.eval_id \notin DOMAIN runnings
    /\ runnings # << >>
\* C28 as stated: every start_eval for an id that is not running prints
\* exactly one reply.
C28_Step ==
    n_pc = "loop" =>
        /\ (/\ n_req'.kind = "start_eval" /\ n_req'.eval_id \notin DOMAIN runnings)
              => C28_Replied
        /\ C28_Others
C28_EveryStartReplied == [][C28_Step]_vars

====
